---- MODULE Spec2Model ----
(***************************************************************************)
(* inspAI mobile: the inspection conversation (app/inspection/[id].tsx),   *)
(* its retrieval over the stored knowledge base, its Report button, and    *)
(* the knowledge-base screen (app/(tabs)/index.tsx) that ingests and       *)
(* deletes documents.  The pure functions chunkText and cleanResponse are  *)
(* also checked on their own, over every small input.                      *)
(*                                                                         *)
(* Texts are sequences of symbols.  A symbol is a one-character string     *)
(* ("<", "/", ">", "|", " ", "\n"), the letter "t" / "T" standing for the  *)
(* tag name think / THINK, or an opaque word without markup ("Hi").        *)
(* Fixed strings of the program are one-symbol texts.                      *)
(*                                                                         *)
(* React state is modelled as committed at once and re-rendered before the *)
(* next user event, so a handler started from the UI sees the current      *)
(* state; an async continuation keeps the values of the render that        *)
(* created it (its closure).                                               *)
(***************************************************************************)
EXTENDS Integers, Sequences, FiniteSets, TLC

VARIABLES
    messages,        \* useState<Message[]>            [id].tsx:115
    isGenerating,    \* useState(false)                [id].tsx:122
    chatHistoryRef,  \* useRef<CactusMessage[]>        [id].tsx:124
    documentsRef,    \* useRef<StoredDocument[]>       [id].tsx:125
    textModel,       \* TRUE when the text model is loaded
    visionModel,     \* TRUE when the vision model is loaded
    now,             \* the last value Date.now() returned
    sends,           \* the invocations of send(): position, closure, locals
    nsends,          \* how many invocations of send() were accepted so far
    pickers,         \* pending pickImage() calls with the closure they hold
    reports,         \* every Report object constructed, in order, with the
                     \* turn that constructed it
    artifacts,       \* every PDF file moved to its permanent path, in order
    report,          \* useState<Report | null>       [id].tsx:133
    generatingReport,\* useState(false)               [id].tsx:134
    manual,          \* <<>>, or <<the running generateReport: its closure>>
    nmanual,         \* how many generateReport calls were started so far
    rquery,          \* retrieval alone: <<queryEmbedding>>, <<>> when embed raised
    rresult,         \* retrieval alone: <<>>, or <<what retrieval returned>>
    documents,       \* useState<Document[]>          index.tsx:432
    loading,         \* useState(false)               index.tsx:436
    modelLoading,    \* useState(true)                index.tsx:437
    cactusRef,       \* <<>>, or <<the width of the loaded model's embeddings>>
    stored,          \* the documents under STORAGE_KEY in AsyncStorage
    ingest,          \* the running handleAddDocument: position, closure, locals
    dialog,          \* <<>>, or the open delete alert with the closure it holds
    saves,           \* the saveDocuments calls awaiting AsyncStorage, in order
    ningests,        \* how many handleAddDocument calls were started so far
    ingested,        \* ids of the documents whose ingest was persisted
    deleted,         \* ids of the documents whose delete was persisted
    loadPending,     \* TRUE until loadDocuments has settled
    textInput,       \* <<>>, or <<the number of chunks of the typed text>>
    alert,           \* <<>>, or <<the last alert handleAddDocument showed>>
    chunkInput,      \* chunkText alone: <<>>, or <<its text and chunkSize>>
    chunked,         \* chunkText alone: <<>>, or <<the chunks it returned>>
    rawText,         \* cleanResponse alone: the raw response text
    sanitized,       \* cleanResponse alone: <<>>, or <<its result for rawText>>
    resanitized      \* cleanResponse alone: <<>>, or <<its result for the
                     \* clean text of sanitized>>

convVars == <<messages, isGenerating, chatHistoryRef, documentsRef, textModel,
              visionModel, now, sends, nsends, pickers, reports, artifacts,
              report, generatingReport, manual, nmanual>>

\* the state of the Report button
manualVars == <<generatingReport, manual, nmanual>>

ragVars == <<rquery, rresult>>

kbVars == <<documents, loading, modelLoading, cactusRef, stored, ingest,
            dialog, saves, ningests, ingested, deleted, loadPending,
            textInput, alert>>

\* the pure functions checked on their own
pureVars == <<chunkInput, chunked, rawText, sanitized, resanitized>>

\* what send() and the image picker leave alone
otherVars == <<ragVars, kbVars, pureVars, manualVars, report>>

vars == <<convVars, ragVars, kbVars, pureVars>>

----------------------------------------------------------------------------
(* Bounds of the model *)

MaxSends == 2
MaxTokens == 1
MaxNow == 3
MaxPickers == 1
MaxManual == 1
MaxChunks == 3
MaxTextChunks == 2
MaxIngests == 1
MaxSaves == 1
MaxTextLen == 5
MaxChunkSize == 3
MaxRawLen == 6

----------------------------------------------------------------------------
(* Texts *)

Lower(c) == IF c = "T" THEN "t" ELSE c

IsSpace(c) == c \in {" ", "\n"}

\* pat matches s at position i, ignoring case (the regex flag i)
MatchAt(s, i, pat) ==
    /\ i >= 1
    /\ i + Len(pat) - 1 <= Len(s)
    /\ \A k \in 1..Len(pat) : Lower(s[i + k - 1]) = pat[k]

OpenTag == <<"<", "t", ">">>
CloseTag == <<"<", "/", "t", ">">>

\* the least j >= from where pat matches s, or 0
RECURSIVE FindFrom(_, _, _)
FindFrom(s, from, pat) ==
    IF from + Len(pat) - 1 > Len(s) THEN 0
    ELSE IF MatchAt(s, from, pat) THEN from
    ELSE FindFrom(s, from + 1, pat)

Slice(s, a, b) == IF a > b THEN <<>> ELSE SubSeq(s, a, b)

\* String.prototype.trim
RECURSIVE TrimLeft(_)
TrimLeft(s) ==
    IF s # <<>> /\ IsSpace(Head(s)) THEN TrimLeft(Tail(s)) ELSE s

RECURSIVE TrimRight(_)
TrimRight(s) ==
    IF s # <<>> /\ IsSpace(s[Len(s)]) THEN TrimRight(Slice(s, 1, Len(s) - 1))
    ELSE s

Trim(s) == TrimRight(TrimLeft(s))

\* text.replace(/<think>[\s\S]*?<\/think>/gi, ""), scanning from position i
RECURSIVE RemoveBlocksFrom(_, _)
RemoveBlocksFrom(s, i) ==
    IF i > Len(s) THEN <<>>
    ELSE IF MatchAt(s, i, OpenTag)
              /\ FindFrom(s, i + Len(OpenTag), CloseTag) # 0
         THEN RemoveBlocksFrom(s, FindFrom(s, i + Len(OpenTag), CloseTag)
                                    + Len(CloseTag))
         ELSE <<s[i]>> \o RemoveBlocksFrom(s, i + 1)

\* text.replace(/pat/gi, "") for a literal pattern, scanning from position i
RECURSIVE RemoveAllFrom(_, _, _)
RemoveAllFrom(s, i, pat) ==
    IF i > Len(s) THEN <<>>
    ELSE IF MatchAt(s, i, pat) THEN RemoveAllFrom(s, i + Len(pat), pat)
    ELSE <<s[i]>> \o RemoveAllFrom(s, i + 1, pat)

\* the end of the shortest match of /<\|.*?\|>/ starting at i, or 0:
\* "<|", then characters other than a line break, then the first "|>"
RECURSIVE TokenEnd(_, _)
TokenEnd(s, j) ==
    IF j + 1 > Len(s) THEN 0
    ELSE IF MatchAt(s, j, <<"|", ">">>) THEN j + 1
    ELSE IF s[j] = "\n" THEN 0
    ELSE TokenEnd(s, j + 1)

\* text.replace(/<\|.*?\|>/gi, ""), scanning from position i
RECURSIVE RemoveTokensFrom(_, _)
RemoveTokensFrom(s, i) ==
    IF i > Len(s) THEN <<>>
    ELSE IF MatchAt(s, i, <<"<", "|">>) /\ TokenEnd(s, i + 2) # 0
         THEN RemoveTokensFrom(s, TokenEnd(s, i + 2) + 1)
         ELSE <<s[i]>> \o RemoveTokensFrom(s, i + 1)

\* the number of consecutive line breaks of s from position i on
RECURSIVE NewlineRun(_, _)
NewlineRun(s, i) ==
    IF i <= Len(s) /\ s[i] = "\n" THEN 1 + NewlineRun(s, i + 1) ELSE 0

\* text.replace(/\n{3,}/g, "\n\n"), scanning from position i
RECURSIVE SquashNewlinesFrom(_, _)
SquashNewlinesFrom(s, i) ==
    IF i > Len(s) THEN <<>>
    ELSE IF NewlineRun(s, i) >= 3
         THEN <<"\n", "\n">> \o SquashNewlinesFrom(s, i + NewlineRun(s, i))
         ELSE <<s[i]>> \o SquashNewlinesFrom(s, i + 1)

\* thinkMatch ? thinkMatch[1].trim() : ""
ThinkReasoning(text) ==
    LET o == FindFrom(text, 1, OpenTag)
        c == IF o = 0 THEN 0 ELSE FindFrom(text, o + Len(OpenTag), CloseTag)
    IN  IF c = 0 THEN <<>> ELSE Trim(Slice(text, o + Len(OpenTag), c - 1))

cleanResponse(text) ==
    [clean |-> Trim(SquashNewlinesFrom(
                    RemoveTokensFrom(
                        RemoveAllFrom(
                            RemoveAllFrom(RemoveBlocksFrom(text, 1), 1, OpenTag),
                            1, CloseTag),
                        1),
                    1)),
     reasoning |-> ThinkReasoning(text)]

----------------------------------------------------------------------------
(* Retrieval over the stored documents *)

\* A score is the real number num / sqrt(den), den > 0, kept exact: the
\* comparisons below are the comparisons of those reals.
RECURSIVE Dot(_, _)
Dot(a, b) ==
    IF a = <<>> THEN 0 ELSE Head(a) * Head(b) + Dot(Tail(a), Tail(b))

cosineSimilarity(a, b) ==
    IF Len(a) # Len(b) THEN [num |-> 0, den |-> 1]
    ELSE IF Dot(a, a) * Dot(b, b) = 0 THEN [num |-> Dot(a, b), den |-> 1]
    ELSE [num |-> Dot(a, b), den |-> Dot(a, a) * Dot(b, b)]

\* x < y
ScoreLess(x, y) ==
    IF x.num < 0 /\ y.num >= 0 THEN TRUE
    ELSE IF x.num >= 0 /\ y.num < 0 THEN FALSE
    ELSE IF x.num >= 0 THEN x.num * x.num * y.den < y.num * y.num * x.den
    ELSE x.num * x.num * y.den > y.num * y.num * x.den

\* a filter that keeps the chunks with c.score > 0.2
AboveFifth(x) == x.num > 0 /\ 25 * x.num * x.num > x.den

\* c.score > 0.3
AboveThreshold(x) == x.num > 0 /\ 100 * x.num * x.num > 9 * x.den

\* the chunks of one document with their scores, in chunk order; reading
\* doc.embeddings[i] past the end gives undefined (see EmbeddingMissing)
RECURSIVE ScoreDoc(_, _, _)
ScoreDoc(q, doc, i) ==
    IF i > Len(doc.chunks) THEN <<>>
    ELSE <<[chunk |-> doc.chunks[i],
            score |-> cosineSimilarity(q, doc.embeddings[i]),
            docName |-> doc.name]>> \o ScoreDoc(q, doc, i + 1)

RECURSIVE ScoreAll(_, _)
ScoreAll(q, docs) ==
    IF docs = <<>> THEN <<>>
    ELSE ScoreDoc(q, Head(docs), 1) \o ScoreAll(q, Tail(docs))

\* cosineSimilarity(queryEmbedding, undefined) reads undefined.length: TypeError
EmbeddingMissing(docs) ==
    \E d \in 1..Len(docs) : Len(docs[d].embeddings) < Len(docs[d].chunks)

\* an insertion that puts x in front of the entries with the same score
RECURSIVE InsertBeforeTies(_, _)
InsertBeforeTies(sorted, x) ==
    IF sorted = <<>> THEN <<x>>
    ELSE IF ~ScoreLess(x.score, Head(sorted).score) THEN <<x>> \o sorted
    ELSE <<Head(sorted)>> \o InsertBeforeTies(Tail(sorted), x)

\* x put into a list sorted by descending score, behind the entries that do
\* not score less than x (Array.prototype.sort is stable)
RECURSIVE InsertByScore(_, _)
InsertByScore(sorted, x) ==
    IF sorted = <<>> THEN <<x>>
    ELSE IF ScoreLess(Head(sorted).score, x.score) THEN <<x>> \o sorted
    ELSE <<Head(sorted)>> \o InsertByScore(Tail(sorted), x)

\* a retrieval that skips the sort
Unsorted(list) == list

\* scoredChunks.sort((a, b) => b.score - a.score)
RECURSIVE SortByScore(_)
SortByScore(list) ==
    IF list = <<>> THEN <<>>
    ELSE InsertByScore(SortByScore(Slice(list, 1, Len(list) - 1)),
                       list[Len(list)])

Take(list, n) == Slice(list, 1, IF Len(list) < n THEN Len(list) ELSE n)

topChunks(scoredChunks) ==
    SelectSeq(Take(SortByScore(scoredChunks), 3),
              LAMBDA c : AboveThreshold(c.score))

\* a fallback that keeps one chunk
fallbackOne(scoredChunks) == Take(SortByScore(scoredChunks), 1)

fallbackChunks(scoredChunks) == Take(SortByScore(scoredChunks), 2)

\* chunks.map((c) => `[From ${c.docName}]: ${c.chunk}`).join("\n\n")
RECURSIVE ContextOf(_)
ContextOf(chunks) ==
    IF chunks = <<>> THEN <<>>
    ELSE <<"[From ", Head(chunks).docName, "]: ">>
         \o Head(chunks).chunk.head \o Head(chunks).chunk.rest
         \o (IF Tail(chunks) = <<>> THEN <<>> ELSE <<"\n", "\n">>)
         \o ContextOf(Tail(chunks))

NoContext == [context |-> <<>>, sources |-> <<>>]

\* the body of retrieveRelevantContext once textModel.embed has resolved
\* with queryEmbedding
RankChunks(queryEmbedding, docs) ==
    IF EmbeddingMissing(docs) THEN NoContext
    ELSE LET scored == ScoreAll(queryEmbedding, docs)
             top == topChunks(scored)
             fb == fallbackChunks(scored)
         IN  IF top = <<>>
             THEN IF fb # <<>> THEN [context |-> ContextOf(fb), sources |-> fb]
                  ELSE NoContext
             ELSE [context |-> ContextOf(top), sources |-> top]

\* retrieveRelevantContext: embedded is <<queryEmbedding>> when the embedder
\* answered and <<>> when it raised
retrieveRelevantContext(embedded, model, docs) ==
    IF ~model \/ docs = <<>> THEN NoContext
    ELSE IF embedded = <<>> THEN NoContext
    ELSE RankChunks(embedded[1], docs)

----------------------------------------------------------------------------
(* The inspection conversation: values *)

Greeting == <<"Hello! I can help you with damage inspection.">>
LoadFailed == <<"Failed to load models.">>
PhotoText == <<"Photo">>
SearchingText == <<"Searching knowledge base...">>
GeneratingText == <<"Generating response...">>
AnalyzingText == <<"Analyzing...">>
EllipsisText == <<"...">>
NoResponseText == <<"No response">>
ModelNotLoaded == <<"Model not loaded.">>
AnalyzeThis == <<"Analyze this.">>
AnalyzeDefault == <<"Analyze this image for damage.">>
Acknowledgment == <<"Report generated! Tap to view or share the PDF.">>
VisionPrompt == <<"You are a helpful vehicle damage inspector.">>
DefaultPrompt == <<"You are a helpful insurance assistant.">>
PolicyPrompt == <<"You are a helpful insurance assistant.", "POLICY CONTEXT:">>

\* `Error: ${e?.message || "Generation failed"}`
ErrorText(message) ==
    <<"Error: ">> \o (IF message # <<>> THEN message ELSE <<"Generation failed">>)

\* what the user types into the input field
UserTexts == {<<"Is hail covered?">>}

\* what the image picker returns
ImageUris == {"file://a.jpg"}

\* the increments the engine streams
StreamTokens == {<<"Hi">>, <<"<", "t", ">">>}

\* e.message of a failed completion
ErrorMessages == {<<>>, <<"Context overflow">>}

\* a chunk: its first 100 characters and the rest
Chunk(head, rest) == [head |-> head, rest |-> rest]

ChunkA == Chunk(<<"Hail is covered">>, <<>>)
ChunkB == Chunk(<<"Deductible 250">>, <<" for members">>)

\* the knowledge bases the inspection screen may have loaded from storage
StoredCorpora ==
    {<<>>,
     <<[id |-> 1, name |-> "Policy", chunks |-> <<ChunkA, ChunkB>>,
        embeddings |-> <<(<<1, 0>>), (<<0, 1>>)>>]>>}

\* the embeddings the text model returns for a query of a turn
TurnQueryEmbeddings == {<<1, 0>>, <<-1, -1>>}

Arguments(severity, summary, damage, recs) ==
    [severity |-> severity, summary |-> summary,
     damage_description |-> damage, recommendations |-> recs]

\* call.arguments || {} : every field undefined
NoArguments == Arguments(<<>>, <<>>, <<>>, <<>>)

GenerateReportCall(args) == [name |-> "generate_report", arguments |-> args]
OtherCall == [name |-> "lookup_policy", arguments |-> NoArguments]

CallSeven == GenerateReportCall(
    Arguments(<<7>>, <<"Dented door">>, <<"Door dent">>, <<"Repair">>))
CallEleven == GenerateReportCall(
    Arguments(<<11>>, <<"Total loss">>, <<>>, <<"Replace">>))
\* result.functionCalls of a completion
FunctionCallLists ==
    {<<>>, <<OtherCall>>, <<OtherCall, CallSeven, CallEleven>>,
     <<CallEleven, CallSeven>>}

NewMessage(id, text, isUser, image, isSearching) ==
    [id |-> id, text |-> text, isUser |-> isUser, image |-> image,
     sources |-> <<>>, isSearching |-> isSearching, reasoning |-> <<>>,
     pdfUri |-> <<>>, report |-> <<>>]

IdleSend ==
    [pc |-> "idle", cmessages |-> <<>>, text |-> <<>>, image |-> <<>>,
     thinkingId |-> 0, uidx |-> 0, aidx |-> 0, streamedText |-> <<>>,
     ntokens |-> 0, embedRaised |-> FALSE, sources |-> <<>>,
     request |-> <<>>, model |-> "none", tools |-> <<>>,
     functionCalls |-> <<>>, newReport |-> <<>>,
     outcome |-> "none", hidx |-> 0]

RECURSIVE StreamedTexts(_)
\* the values fullResponse can have after at most n increments
StreamedTexts(n) ==
    IF n = 0 THEN {<<>>}
    ELSE LET shorter == StreamedTexts(n - 1)
         IN  shorter \cup {text \o token : text \in shorter,
                                            token \in StreamTokens}

\* cleanResponse of every text a completion can end with
cleanedResponse ==
    [text \in StreamedTexts(MaxTokens) \cup {NoResponseText}
        |-> cleanResponse(text)]

\* an invocation that has returned: its locals are gone; what stays is where
\* its two messages were appended (uidx, aidx), how it ended, the function
\* calls its completion carried and where its assistant entry of
\* chatHistoryRef is (hidx, 0 for none)
Returned(s, outcome, hidx) ==
    [IdleSend EXCEPT !.pc = "done", !.outcome = outcome, !.text = s.text,
                     !.image = s.image, !.thinkingId = s.thinkingId,
                     !.uidx = s.uidx, !.aidx = s.aidx, !.hidx = hidx,
                     !.functionCalls = s.functionCalls]

InFlight(t) == sends[t].pc \notin {"idle", "done"}

----------------------------------------------------------------------------
(* The inspection conversation: helpers of send and generateResponse *)

\* prev.map((m) => m.id === id ? f(m) : m)
MapById(msgs, id, f(_)) ==
    [i \in 1..Len(msgs) |-> IF msgs[i].id = id THEN f(msgs[i]) ELSE msgs[i]]

\* the update of the placeholder at the end of send()
FinishMessages(msgs, id, response, sources, reasoning) ==
    MapById(msgs, id,
            LAMBDA m : [m EXCEPT !.text = response, !.sources = sources,
                                 !.reasoning = reasoning,
                                 !.isSearching = FALSE])

\* the update of the placeholder in onToken
StreamMessages(msgs, id, streamed) ==
    MapById(msgs, id,
            LAMBDA m : [m EXCEPT !.text =
                            IF cleanResponse(streamed).clean # <<>>
                            THEN cleanResponse(streamed).clean
                            ELSE EllipsisText])

ChatEntry(role, content, images) ==
    [role |-> role, content |-> content, images |-> images]

\* chatHistoryRef.current with the turn's user and assistant entries added
HistoryWith(history, text, answer) ==
    history \o <<ChatEntry("user", text, <<>>),
                 ChatEntry("assistant", answer, <<>>)>>

systemPrompt(image, policyContext) ==
    IF image # <<>> THEN VisionPrompt
    ELSE IF policyContext # <<>> THEN PolicyPrompt \o policyContext
    ELSE DefaultPrompt

\* a generateResponse that sends the text route without the earlier turns
RequestMessagesNoHistory(text, image, policyContext, history) ==
    IF image # <<>>
    THEN <<ChatEntry("system", systemPrompt(image, policyContext), <<>>),
           ChatEntry("user", text, image)>>
    ELSE <<ChatEntry("system", systemPrompt(image, policyContext), <<>>),
           ChatEntry("user", text, <<>>)>>

\* the messages generateResponse passes to model.complete
RequestMessages(text, image, policyContext, history) ==
    IF image # <<>>
    THEN <<ChatEntry("system", systemPrompt(image, policyContext), <<>>),
           ChatEntry("user", text, image)>>
    ELSE <<ChatEntry("system", systemPrompt(image, policyContext), <<>>)>>
         \o history \o <<ChatEntry("user", text, <<>>)>>

\* a dispatcher that keeps the last call named generate_report
RECURSIVE LastReportCall(_)
LastReportCall(functionCalls) ==
    IF functionCalls = <<>> THEN <<>>
    ELSE IF LastReportCall(Tail(functionCalls)) # <<>>
         THEN LastReportCall(Tail(functionCalls))
         ELSE IF Head(functionCalls).name = "generate_report"
              THEN <<Head(functionCalls)>>
              ELSE <<>>

\* the first call named generate_report, as <<call>>, or <<>>
RECURSIVE FirstReportCall(_)
FirstReportCall(functionCalls) ==
    IF functionCalls = <<>> THEN <<>>
    ELSE IF Head(functionCalls).name = "generate_report"
         THEN <<Head(functionCalls)>>
         ELSE FirstReportCall(Tail(functionCalls))

\* messages.filter(m => m.image).map(m => m.image!)
RECURSIVE ImagesOf(_)
ImagesOf(msgs) ==
    IF msgs = <<>> THEN <<>>
    ELSE Head(msgs).image \o ImagesOf(Tail(msgs))

\* one m.sources.forEach pass over policyRefs
RECURSIVE AddPolicyRefs(_, _)
AddPolicyRefs(policyRefs, sources) ==
    IF sources = <<>> THEN policyRefs
    ELSE AddPolicyRefs(
             IF \E i \in 1..Len(policyRefs) :
                    policyRefs[i] = Head(sources).chunk.head
             THEN policyRefs
             ELSE Append(policyRefs, Head(sources).chunk.head \o <<"...">>),
             Tail(sources))

RECURSIVE PolicyRefsOf(_, _)
PolicyRefsOf(msgs, policyRefs) ==
    IF msgs = <<>> THEN policyRefs
    ELSE PolicyRefsOf(Tail(msgs), AddPolicyRefs(policyRefs, Head(msgs).sources))

OrDefault(value, default) == IF value # <<>> THEN value ELSE default

\* String(args.severity || "N/A")
SeverityString(severity) ==
    IF severity = <<>> \/ severity[1] = 0 THEN "N/A" ELSE ToString(severity[1])

\* the Report handleToolCall builds for a generate_report call; msgs is the
\* messages value of the render that created the handler; id stands for
\* `RPT-${Date.now()}` (date and time are left out)
NewReport(call, msgs, id) ==
    [id |-> id,
     severity |-> SeverityString(call.arguments.severity),
     summary |-> OrDefault(call.arguments.summary, <<"Inspection completed.">>),
     damageDescription |->
         OrDefault(call.arguments.damage_description, <<"See chat history.">>),
     recommendations |->
         OrDefault(call.arguments.recommendations, <<"Submit for review.">>),
     images |-> ImagesOf(msgs),
     policyReferences |-> PolicyRefsOf(msgs, <<>>)]

\* the tool schema of the text route: the names of the tools it declares
TEXT_TOOLS == <<"generate_report">>

\* a router that stays on the vision model once a turn carried an image
routePinned(image) ==
    IF image # <<>> \/ \E t \in 1..MaxSends : sends[t].image # <<>>
    THEN [model |-> "vision", tools |-> <<>>]
    ELSE [model |-> "text", tools |-> TEXT_TOOLS]

\* imageUri ? visionModel : textModel and imageUri ? undefined : TEXT_TOOLS
route(image) ==
    IF image # <<>>
    THEN [model |-> "vision", tools |-> <<>>]
    ELSE [model |-> "text", tools |-> TEXT_TOOLS]

\* generateResponse after retrieval: the call of model.complete
CallComplete(s, rag) ==
    [s EXCEPT !.pc = "complete", !.sources = rag.sources,
              !.model = route(s.image).model,
              !.tools = route(s.image).tools,
              !.request = RequestMessages(s.text, s.image, rag.context,
                                          chatHistoryRef)]

----------------------------------------------------------------------------
(* The inspection conversation: actions *)

\* generateResponse up to its first await that leaves the microtask queue.
\* s is the invocation, msgs the messages so far.  The result names the next
\* values of the invocation, the messages and the in-flight flag.
BeginGenerate(s, msgs) ==
    IF ~(IF s.image # <<>> THEN visionModel ELSE textModel)
    THEN [send |-> Returned(s, "unavailable", 0),
          messages |-> FinishMessages(msgs, s.thinkingId, ModelNotLoaded,
                                      <<>>, <<>>),
          generating |-> FALSE]
    ELSE IF s.image = <<>> /\ textModel /\ documentsRef # <<>>
    THEN [send |-> [s EXCEPT !.pc = "embed"],
          messages |-> msgs, generating |-> TRUE]
    ELSE [send |-> CallComplete(s,
                     IF s.image = <<>> /\ textModel
                     THEN retrieveRelevantContext(<<>>, textModel, documentsRef)
                     ELSE NoContext),
          messages |-> msgs, generating |-> TRUE]

\* send(msg, imageUri) run with the isGenerating and messages of its closure.
\* Date.now() is read twice in one synchronous block, for the id of the user
\* message and for thinkingId: both reads return the same millisecond, which
\* lies 0, 1 or more milliseconds after the last read.  The first send of the
\* session is the origin of the clock.
Send(cIsGenerating, cmessages, msg, image) ==
    /\ ~cIsGenerating
    /\ nsends < MaxSends
    /\ \E d \in (IF nsends = 0 THEN {0} ELSE 0..2) :
         /\ now + d <= MaxNow
         /\ LET t == nsends + 1
                userMessage == NewMessage(now + d, msg, TRUE, image, FALSE)
                thinkingId == now + d + 1
                s == [IdleSend EXCEPT !.cmessages = cmessages, !.text = msg,
                                      !.image = image,
                                      !.thinkingId = thinkingId,
                                      !.uidx = Len(messages) + 1,
                                      !.aidx = Len(messages) + 2]
            IN  /\ now' = now + d
                /\ nsends' = t
                /\ IF image = <<>> /\ documentsRef # <<>>
                   THEN /\ messages' = messages \o
                              <<userMessage,
                                NewMessage(thinkingId, SearchingText, FALSE,
                                           <<>>, TRUE)>>
                        /\ sends' = [sends EXCEPT ![t] = [s EXCEPT !.pc = "delay"]]
                        /\ isGenerating' = TRUE
                   ELSE LET g == BeginGenerate(s, messages \o
                                   <<userMessage,
                                     NewMessage(thinkingId, AnalyzingText, FALSE,
                                                <<>>, FALSE)>>)
                        IN  /\ messages' = g.messages
                            /\ sends' = [sends EXCEPT ![t] = g.send]
                            /\ isGenerating' = g.generating
    /\ UNCHANGED <<chatHistoryRef, documentsRef, textModel, visionModel,
                   reports, artifacts>>

\* the Send button or the keyboard submit, with the typed text
PressSend ==
    /\ \E msg \in UserTexts : Send(isGenerating, messages, msg, <<>>)
    /\ UNCHANGED <<pickers, otherVars>>

\* the Camera or Gallery button: pickImage starts and awaits the picker
PressPick ==
    /\ Len(pickers) < MaxPickers
    /\ nsends < MaxSends
    /\ pickers' = Append(pickers, [isGenerating |-> isGenerating])
    /\ UNCHANGED <<messages, isGenerating, chatHistoryRef, documentsRef,
                   textModel, visionModel, now, sends, nsends, reports,
                   artifacts, otherVars>>

RemoveAt(seq, i) == Slice(seq, 1, i - 1) \o Slice(seq, i + 1, Len(seq))

\* the picker is cancelled: pickImage returns without calling send
PickCancelled ==
    /\ \E i \in 1..Len(pickers) : pickers' = RemoveAt(pickers, i)
    /\ UNCHANGED <<messages, isGenerating, chatHistoryRef, documentsRef,
                   textModel, visionModel, now, sends, nsends, reports,
                   artifacts, otherVars>>

\* the picker returns an image: send("Analyze this.", uri) of pickImage's
\* closure returns at once when that closure's isGenerating is set.  A turn
\* with an image never reads the messages of its closure (handleToolCall is
\* reached on text turns only), so the closure keeps isGenerating alone.
PickResolved ==
    /\ \E i \in 1..Len(pickers), uri \in ImageUris :
         /\ pickers' = RemoveAt(pickers, i)
         /\ IF pickers[i].isGenerating
            THEN UNCHANGED <<messages, isGenerating, chatHistoryRef,
                             documentsRef, textModel, visionModel, now, sends,
                             nsends, reports, artifacts>>
            ELSE Send(pickers[i].isGenerating, <<>>, AnalyzeThis, <<uri>>)
    /\ UNCHANGED otherVars

\* the 500 ms of the searching indicator are over
DelayElapsed(t) ==
    /\ sends[t].pc = "delay"
    /\ LET g == BeginGenerate(sends[t],
                    MapById(messages, sends[t].thinkingId,
                            LAMBDA m : [m EXCEPT !.text = GeneratingText,
                                                 !.isSearching = FALSE]))
       IN  /\ messages' = g.messages
           /\ sends' = [sends EXCEPT ![t] = g.send]
           /\ isGenerating' = g.generating
    /\ UNCHANGED <<chatHistoryRef, documentsRef, textModel, visionModel, now,
                   nsends, pickers, reports, artifacts, otherVars>>

\* a retrieveRelevantContext without its try/catch: the embedder's error
\* reaches the catch of generateResponse and ends the turn
EmbedSettledUncaught(t) ==
    /\ sends[t].pc = "embed"
    /\ \E embedded \in {<<>>} \cup {<<q>> : q \in TurnQueryEmbeddings} :
         IF embedded = <<>>
         THEN /\ messages' = FinishMessages(messages, sends[t].thinkingId,
                                            ErrorText(<<>>), <<>>, <<>>)
              /\ sends' = [sends EXCEPT ![t] = Returned(sends[t], "error", 0)]
              /\ isGenerating' = FALSE
         ELSE /\ sends' = [sends EXCEPT ![t] =
                              CallComplete(sends[t],
                                  retrieveRelevantContext(embedded, textModel,
                                                          documentsRef))]
              /\ UNCHANGED <<messages, isGenerating>>
    /\ UNCHANGED <<chatHistoryRef, documentsRef, textModel, visionModel, now,
                   nsends, pickers, reports, artifacts, otherVars>>

\* textModel.embed of the query resolves or raises
EmbedSettled(t) ==
    /\ sends[t].pc = "embed"
    /\ \E embedded \in {<<>>} \cup {<<q>> : q \in TurnQueryEmbeddings} :
         sends' = [sends EXCEPT ![t] =
                      CallComplete([sends[t] EXCEPT
                                       !.embedRaised = (embedded = <<>>)],
                          retrieveRelevantContext(embedded, textModel,
                                                  documentsRef))]
    /\ UNCHANGED <<messages, isGenerating, chatHistoryRef, documentsRef,
                   textModel, visionModel, now, nsends, pickers, reports,
                   artifacts, otherVars>>

\* the engine streams one increment: onToken
OnToken(t) ==
    /\ sends[t].pc = "complete"
    /\ sends[t].ntokens < MaxTokens
    /\ \E token \in StreamTokens :
         /\ sends' = [sends EXCEPT
                         ![t].streamedText = sends[t].streamedText \o token,
                         ![t].ntokens = sends[t].ntokens + 1]
         /\ messages' = StreamMessages(messages, sends[t].thinkingId,
                                       sends[t].streamedText \o token)
    /\ UNCHANGED <<isGenerating, chatHistoryRef, documentsRef, textModel,
                   visionModel, now, nsends, pickers, reports, artifacts,
                   otherVars>>

\* the rest of generateResponse and of send for a completion without a
\* dispatched tool call
FinishNormal(t, response, functionCalls) ==
    LET s == [sends[t] EXCEPT !.functionCalls = functionCalls]
        responseText == IF response # <<>> THEN response
                        ELSE IF s.streamedText # <<>> THEN s.streamedText
                        ELSE NoResponseText
        cleaned == cleanedResponse[responseText]
    IN  /\ chatHistoryRef' = IF s.image = <<>>
                             THEN HistoryWith(chatHistoryRef, s.text,
                                              cleaned.clean)
                             ELSE chatHistoryRef
        /\ messages' = FinishMessages(messages, s.thinkingId, cleaned.clean,
                                      s.sources, cleaned.reasoning)
        /\ sends' = [sends EXCEPT ![t] =
                        Returned(s, "normal",
                                 IF s.image = <<>> THEN Len(chatHistoryRef) + 2
                                 ELSE 0)]
        /\ isGenerating' = FALSE
        /\ UNCHANGED <<now, reports>>

\* handleToolCall up to its await of generatePdfFromReport
DispatchReport(t, functionCalls, call) ==
    \E d \in 0..1 :
        /\ now + d <= MaxNow
        /\ now' = now + d
        /\ sends' = [sends EXCEPT
                        ![t].pc = "pdf",
                        ![t].functionCalls = functionCalls,
                        ![t].newReport =
                            <<NewReport(call, sends[t].cmessages, now + d)>>]
        /\ reports' = Append(reports,
                             [turn |-> t,
                              report |-> NewReport(call, sends[t].cmessages,
                                                   now + d)])
        /\ UNCHANGED <<messages, isGenerating, chatHistoryRef>>

\* model.complete resolves with {response, functionCalls}
CompleteResolved(t) ==
    /\ sends[t].pc = "complete"
    /\ \E response \in {<<>>, sends[t].streamedText},
          functionCalls \in FunctionCallLists :
         IF sends[t].image = <<>> /\ functionCalls # <<>>
            /\ FirstReportCall(functionCalls) # <<>>
         THEN DispatchReport(t, functionCalls,
                             FirstReportCall(functionCalls)[1])
         ELSE FinishNormal(t, response, functionCalls)
    /\ UNCHANGED <<documentsRef, textModel, visionModel, nsends, pickers,
                   artifacts, otherVars>>

\* a send whose setIsGenerating(false) is skipped when the completion raised
CompleteRejectedStaysBusy(t) ==
    /\ sends[t].pc = "complete"
    /\ \E message \in ErrorMessages :
         messages' = FinishMessages(messages, sends[t].thinkingId,
                                    ErrorText(message), <<>>, <<>>)
    /\ sends' = [sends EXCEPT ![t] = Returned(sends[t], "error", 0)]
    /\ UNCHANGED <<isGenerating, chatHistoryRef, documentsRef, textModel,
                   visionModel, now, nsends, pickers, reports, artifacts,
                   otherVars>>

\* model.complete raises: the catch of generateResponse, then the end of send
CompleteRejected(t) ==
    /\ sends[t].pc = "complete"
    /\ \E message \in ErrorMessages :
         messages' = FinishMessages(messages, sends[t].thinkingId,
                                    ErrorText(message), <<>>, <<>>)
    /\ sends' = [sends EXCEPT ![t] = Returned(sends[t], "error", 0)]
    /\ isGenerating' = FALSE
    /\ UNCHANGED <<chatHistoryRef, documentsRef, textModel, visionModel, now,
                   nsends, pickers, reports, artifacts, otherVars>>

\* generatePdfFromReport returns the path of the PDF (ok) or null; then the
\* rest of handleToolCall, of generateResponse and of send
PdfSettled(t) ==
    /\ sends[t].pc = "pdf"
    /\ \E ok \in BOOLEAN :
         LET s == sends[t]
             r == s.newReport[1]
         IN  /\ artifacts' = IF ok
                             THEN Append(artifacts, [path |-> r.id, turn |-> t])
                             ELSE artifacts
             /\ report' = <<r>>
             /\ messages' =
                  FinishMessages(
                      IF ok
                      THEN MapById(messages, s.thinkingId,
                               LAMBDA m : [m EXCEPT !.text = Acknowledgment,
                                                    !.pdfUri = <<r.id>>,
                                                    !.report = <<r>>])
                      ELSE messages,
                      s.thinkingId, Acknowledgment, s.sources, <<>>)
    /\ chatHistoryRef' = HistoryWith(chatHistoryRef, sends[t].text,
                                     Acknowledgment)
    /\ sends' = [sends EXCEPT ![t] =
                    Returned(sends[t], "tool", Len(chatHistoryRef) + 2)]
    /\ isGenerating' = FALSE
    /\ UNCHANGED <<documentsRef, textModel, visionModel, now, nsends, pickers,
                   reports, ragVars, kbVars, pureVars, manualVars>>

\* the fields generateReport parses out of the response of the model: each
\* is <<>> when its pattern does not match
ParsedResponse(severity, summary, damage, recs) ==
    [severity |-> severity, summary |-> summary, damage |-> damage,
     recommendations |-> recs]

\* a response in the requested format, and one in which nothing matches
ReportResponses ==
    {ParsedResponse(<<"8">>, <<"Rear damage">>, <<"Bumper cracked">>,
                    <<"Replace bumper">>),
     ParsedResponse(<<>>, <<>>, <<>>, <<>>)}

\* messages.filter(m => !m.isUser && m.text && !m.isSearching).map(m => m.text)
RECURSIVE AssessmentsOf(_)
AssessmentsOf(msgs) ==
    IF msgs = <<>> THEN <<>>
    ELSE (IF ~Head(msgs).isUser /\ Head(msgs).text # <<>>
             /\ ~Head(msgs).isSearching
          THEN <<Head(msgs).text>> ELSE <<>>)
         \o AssessmentsOf(Tail(msgs))

\* assessments.join("\n\n")
RECURSIVE JoinAssessments(_)
JoinAssessments(assessments) ==
    IF assessments = <<>> THEN <<>>
    ELSE IF Len(assessments) = 1 THEN Head(assessments)
    ELSE Head(assessments) \o <<"\n", "\n">>
             \o JoinAssessments(Tail(assessments))

\* the Report generateReport builds from the parsed response; msgs is the
\* messages value of the render that created the handler
ManualReport(response, msgs, id) ==
    [id |-> id,
     severity |-> IF response.severity # <<>> THEN response.severity[1]
                  ELSE "N/A",
     summary |->
         OrDefault(response.summary,
                   IF AssessmentsOf(msgs) # <<>> THEN AssessmentsOf(msgs)[1]
                   ELSE <<"Inspection completed.">>),
     damageDescription |->
         OrDefault(response.damage, JoinAssessments(AssessmentsOf(msgs))),
     recommendations |->
         OrDefault(response.recommendations, <<"Submit for review.">>),
     images |-> ImagesOf(msgs),
     policyReferences |-> PolicyRefsOf(msgs, <<>>)]

\* the Report button pressed: generateReport up to its await of
\* textModel.complete.  The button is disabled while a report is being
\* generated and while there are fewer than two messages; without a text
\* model the handler shows an alert and returns.
PressReport ==
    /\ ~generatingReport
    /\ Len(messages) >= 2
    /\ textModel
    /\ nmanual < MaxManual
    /\ generatingReport' = TRUE
    /\ manual' = <<[messages |-> messages]>>
    /\ nmanual' = nmanual + 1
    /\ UNCHANGED <<messages, isGenerating, chatHistoryRef, documentsRef,
                   textModel, visionModel, now, sends, nsends, pickers,
                   reports, artifacts, report, ragVars, kbVars, pureVars>>

\* textModel.complete of generateReport resolves and the Report is built and
\* shown, or it raises and an alert is shown; then the finally
ReportSettled ==
    /\ manual # <<>>
    /\ \/ \E response \in ReportResponses, d \in 0..1 :
             LET r == ManualReport(response, manual[1].messages, now + d)
             IN  /\ now + d <= MaxNow
                 /\ now' = now + d
                 /\ reports' = Append(reports, [turn |-> 0, report |-> r])
                 /\ report' = <<r>>
       \/ UNCHANGED <<now, reports, report>>
    /\ generatingReport' = FALSE
    /\ manual' = <<>>
    /\ UNCHANGED <<messages, isGenerating, chatHistoryRef, documentsRef,
                   textModel, visionModel, sends, nsends, pickers, artifacts,
                   nmanual, ragVars, kbVars, pureVars>>

ConvInitWith(corpora) ==
    /\ \E loaded \in {<<TRUE, TRUE>>, <<TRUE, FALSE>>, <<FALSE, FALSE>>} :
         /\ textModel = loaded[1]
         /\ visionModel = loaded[2]
         /\ messages = <<NewMessage(0, IF loaded[2] THEN Greeting ELSE LoadFailed,
                                    FALSE, <<>>, FALSE)>>
    /\ documentsRef \in corpora
    /\ isGenerating = FALSE
    /\ chatHistoryRef = <<>>
    /\ now = 1
    /\ sends = [t \in 1..MaxSends |-> IdleSend]
    /\ nsends = 0
    /\ pickers = <<>>
    /\ reports = <<>>
    /\ artifacts = <<>>
    /\ report = <<>>
    /\ generatingReport = FALSE
    /\ manual = <<>>
    /\ nmanual = 0

ConvInit == ConvInitWith(StoredCorpora)

\* the conversation of a session in which nothing is sent
ConvIdle ==
    /\ ConvInitWith({<<>>})
    /\ textModel
    /\ visionModel

RagIdle ==
    /\ rquery = <<>>
    /\ rresult = <<>>

IdleIngest ==
    [pc |-> "idle", documents |-> <<>>, chunks |-> 0, embeddings |-> <<>>]

KbInitWith(snapshots) ==
    /\ stored \in snapshots
    /\ documents = <<>>
    /\ loadPending = TRUE
    /\ textInput = <<>>
    /\ alert = <<>>
    /\ loading = FALSE
    /\ modelLoading = TRUE
    /\ cactusRef = <<>>
    /\ ingest = IdleIngest
    /\ dialog = <<>>
    /\ saves = <<>>
    /\ ningests = 0
    /\ ingested = {stored[i].id : i \in 1..Len(stored)}
    /\ deleted = {}

KbIdle == KbInitWith({<<>>})

PureIdle ==
    /\ chunkInput = <<>>
    /\ chunked = <<>>
    /\ rawText = <<>>
    /\ sanitized = <<>>
    /\ resanitized = <<>>

Init == ConvInit /\ RagIdle /\ KbIdle /\ PureIdle

Next ==
    \/ PressSend
    \/ PressPick
    \/ PickCancelled
    \/ PickResolved
    \/ \E t \in 1..MaxSends : DelayElapsed(t)
    \/ \E t \in 1..MaxSends : EmbedSettled(t)
    \/ \E t \in 1..MaxSends : OnToken(t)
    \/ \E t \in 1..MaxSends : CompleteResolved(t)
    \/ \E t \in 1..MaxSends : CompleteRejected(t)
    \/ \E t \in 1..MaxSends : PdfSettled(t)

Spec == Init /\ [][Next]_vars

\* the conversation together with the Report button, with both models
\* loaded; sends come from the Send button and the keyboard only (the image
\* picker and its stale send are covered by Spec)
ReportInit ==
    /\ ConvInitWith(StoredCorpora)
    /\ textModel
    /\ visionModel
    /\ RagIdle
    /\ KbIdle
    /\ PureIdle

ReportNext ==
    \/ PressSend
    \/ \E t \in 1..MaxSends : DelayElapsed(t)
    \/ \E t \in 1..MaxSends : EmbedSettled(t)
    \/ \E t \in 1..MaxSends : OnToken(t)
    \/ \E t \in 1..MaxSends : CompleteResolved(t)
    \/ \E t \in 1..MaxSends : CompleteRejected(t)
    \/ \E t \in 1..MaxSends : PdfSettled(t)
    \/ PressReport
    \/ ReportSettled

SpecReport == ReportInit /\ [][ReportNext]_vars

----------------------------------------------------------------------------
(* The timers, the embedder, the engine and the renderer answer: while   *)
(* some accepted send() waits on one of them, one of these awaits is     *)
(* eventually resumed.  Streaming a token and the user's own actions are *)
(* not forced.                                                           *)

Resume(t) ==
    \/ DelayElapsed(t)
    \/ EmbedSettled(t)
    \/ CompleteResolved(t)
    \/ CompleteRejected(t)
    \/ PdfSettled(t)

FairSpec == Spec /\ WF_vars(\E t \in 1..MaxSends : Resume(t))

----------------------------------------------------------------------------
(* Claims about the inspection conversation *)

Turns == 1..MaxSends

ReportsOf(t) == SelectSeq(reports, LAMBDA e : e.turn = t)

ArtifactsOf(t) == SelectSeq(artifacts, LAMBDA e : e.turn = t)

HasReportCall(functionCalls) ==
    \E i \in 1..Len(functionCalls) : functionCalls[i].name = "generate_report"

\* the report carries the arguments of the first generate_report call of the list
BuiltFromFirstCall(built, functionCalls) ==
    \E i \in 1..Len(functionCalls) :
        /\ functionCalls[i].name = "generate_report"
        /\ \A j \in 1..(i - 1) : functionCalls[j].name # "generate_report"
        /\ functionCalls[i].arguments.summary # <<>>
               => built.summary = functionCalls[i].arguments.summary
        /\ functionCalls[i].arguments.recommendations # <<>>
               => built.recommendations
                      = functionCalls[i].arguments.recommendations
        /\ functionCalls[i].arguments.severity # <<>>
               => built.severity
                      = ToString(functionCalls[i].arguments.severity[1])

ToolTurnOver(t) == sends[t].pc = "done" /\ sends[t].outcome = "tool"

\* C1: at most one generation is in flight at any time: while an accepted
\* send() has not completed, no further send() is accepted.
C1_AtMostOneInFlight ==
    Cardinality({t \in Turns : InFlight(t)}) <= 1

C3_AcknowledgmentOnly ==
    \A t \in Turns :
        ToolTurnOver(t)
            => /\ messages[sends[t].aidx].text = Acknowledgment
               /\ chatHistoryRef[sends[t].hidx]
                      = ChatEntry("assistant", Acknowledgment, <<>>)

\* C8: when embedding the query raises, retrieval yields no source and no
\* context, and the turn goes on to call the model with the default prompt.
C8_EmbedFailureDegrades ==
    [][\A t \in Turns :
          (sends[t].pc = "embed" /\ sends'[t].pc # "embed")
              => /\ sends'[t].pc = "complete"
                 /\ sends'[t].embedRaised
                        => /\ sends'[t].sources = <<>>
                           /\ sends'[t].request[1]
                                  = ChatEntry("system", DefaultPrompt, <<>>)]_vars

C8_Witness ==
    \E t \in Turns : sends[t].pc = "complete" /\ sends[t].embedRaised

IsErrorPlaceholder(text) ==
    \/ text = ModelNotLoaded
    \/ \E message \in ErrorMessages : text = ErrorText(message)

C10_FlagCleared ==
    /\ \A t \in Turns : InFlight(t) ~> (sends[t].pc = "done")
    /\ [][\A t \in Turns :
             (sends[t].pc # "done" /\ sends'[t].pc = "done")
                 => ~isGenerating']_vars

C10_Witness ==
    /\ sends[1].pc = "done"
    /\ sends[1].outcome = "error"
    /\ ~isGenerating
    /\ sends[2].pc # "idle"
    /\ sends[2].image = <<>>
    /\ sends[2].uidx > sends[1].aidx

\* the severities the tool description allows, as the Report holds them
SeverityRange == {ToString(n) : n \in 1..10}

\* C19: every Report built from a generate_report tool call has a severity
\* within 1..10 or the default "N/A" of a missing value; an out-of-range
\* argument does not reach the Report.
C19_SeverityInRange ==
    \A i \in 1..Len(reports) :
        reports[i].turn \in Turns =>
            reports[i].report.severity \in SeverityRange \cup {"N/A"}

\* C20: every Report created, by a tool call or by the Report button, has
\* an id that differs from the id of every Report created before it, and
\* no artifact is rendered to the path of an earlier artifact, so that a
\* later generation leaves the earlier Reports and their artifacts alone.
C20_FreshReportIds ==
    /\ \A i, j \in 1..Len(reports) :
           i < j => reports[i].report.id # reports[j].report.id
    /\ \A i, j \in 1..Len(artifacts) :
           i < j => artifacts[i].path # artifacts[j].path

\* C21: the model and the tool schema of a completion depend on the image
\* attachment of its own turn alone: with an image the vision model and no
\* tool schema, without one the text model and the text tool schema,
\* whatever served the earlier turns; the model called is a loaded one.
C21_RouteByImageAlone ==
    \A t \in Turns :
        sends[t].pc = "complete"
            => /\ sends[t].image # <<>>
                      => /\ sends[t].model = "vision"
                         /\ sends[t].tools = <<>>
                         /\ visionModel
               /\ sends[t].image = <<>>
                      => /\ sends[t].model = "text"
                         /\ sends[t].tools = TEXT_TOOLS
                         /\ textModel

C21_Witness ==
    /\ sends[1].pc = "done"
    /\ sends[1].outcome = "normal"
    /\ sends[1].image # <<>>
    /\ sends[2].pc = "complete"
    /\ sends[2].image = <<>>
    /\ sends[2].model = "text"

\* C22: the conversation is append-only: no step removes or reorders a
\* message, and the only message a step changes is the assistant
\* placeholder of a turn in flight; user messages and the assistant
\* messages of completed turns stay as they are.
C22_AppendOnly ==
    [][/\ Len(messages') >= Len(messages)
       /\ \A i \in 1..Len(messages) :
              /\ messages'[i].id = messages[i].id
              /\ messages'[i].isUser = messages[i].isUser
              /\ messages'[i] # messages[i]
                     => /\ ~messages[i].isUser
                        /\ \E t \in Turns : InFlight(t) /\ sends[t].aidx = i]_vars

\* the turns whose user and assistant entries the model history holds: the
\* text turns that ended with an answer or with a dispatched report call
AnsweredTextTurns ==
    {u \in Turns : /\ sends[u].pc = "done"
                   /\ sends[u].image = <<>>
                   /\ sends[u].outcome \in {"normal", "tool"}}

\* the user and assistant messages of the text turns accepted before turn
\* t, in order, as chat entries
RECURSIVE MessagesOfTextTurnsBefore(_, _)
MessagesOfTextTurnsBefore(t, u) ==
    IF u >= t THEN <<>>
    ELSE (IF sends[u].image = <<>>
          THEN <<ChatEntry("user", messages[sends[u].uidx].text, <<>>),
                 ChatEntry("assistant", messages[sends[u].aidx].text, <<>>)>>
          ELSE <<>>)
         \o MessagesOfTextTurnsBefore(t, u + 1)

CallsEngine(t) == sends[t].pc # "complete" /\ sends'[t].pc = "complete"

C24_AcknowledgmentWithArtifact ==
    /\ \A t \in Turns :
           ToolTurnOver(t)
               => /\ messages[sends[t].aidx].text = Acknowledgment
                  /\ messages[sends[t].aidx].pdfUri # <<>>
                  /\ messages[sends[t].aidx].report # <<>>
    /\ \A i \in 1..Len(messages) :
           messages[i].text = Acknowledgment => messages[i].pdfUri # <<>>

Dispatches(t) == sends[t].pc = "complete" /\ sends'[t].pc = "pdf"

\* every Source attached to a message of msgs has its reference in refs
SourcesReferenced(msgs, refs) ==
    \A i \in 1..Len(msgs) :
        \A k \in 1..Len(msgs[i].sources) :
            \E r \in 1..Len(refs) :
                refs[r] = msgs[i].sources[k].chunk.head \o <<"...">>

\* C25: the Report built when a generate_report call is dispatched holds
\* the image of every message of the conversation that has one, in
\* conversation order, and a policy reference for every Source attached to
\* a message of the conversation.
C25_ReportAggregatesConversation ==
    [][\A t \in Turns :
          Dispatches(t)
              => /\ sends'[t].newReport[1].images = ImagesOf(messages)
                 /\ SourcesReferenced(messages,
                        sends'[t].newReport[1].policyReferences)]_vars

\* C27: the ids of the messages of the conversation are pairwise distinct:
\* the ids send() gives to its user message and to its placeholder differ
\* from each other and from every id already in the list.
C27_DistinctMessageIds ==
    \A i, j \in 1..Len(messages) : i < j => messages[i].id # messages[j].id

\* C28: the policy references of a Report, built by a tool call or by the
\* Report button, hold no duplicates: Sources with the same first 100
\* characters give one reference.
C28_NoDuplicateReferences ==
    \A i \in 1..Len(reports) :
        \A a, b \in 1..Len(reports[i].report.policyReferences) :
            a < b => reports[i].report.policyReferences[a]
                         # reports[i].report.policyReferences[b]

\* an assistant message that still shows a placeholder of send()
Provisional(m) ==
    /\ ~m.isUser
    /\ \/ m.isSearching
       \/ m.text \in {SearchingText, GeneratingText, AnalyzingText,
                      EllipsisText}

\* C29: an accepted send() appends exactly two messages, the user message
\* and then one placeholder, and no other step changes the length of the
\* list; once the send is over its assistant message holds a final text
\* with the searching flag cleared; and while the in-flight flag is clear
\* no message is a provisional placeholder.
C29_TwoMessagesPerTurn ==
    /\ [][/\ nsends' # nsends
               => /\ Len(messages') = Len(messages) + 2
                  /\ messages'[Len(messages) + 1].isUser
                  /\ ~messages'[Len(messages) + 2].isUser
          /\ nsends' = nsends => Len(messages') = Len(messages)]_vars
    /\ [](\A t \in Turns :
              sends[t].pc = "done" => ~Provisional(messages[sends[t].aidx]))
    /\ [](~isGenerating
              => \A i \in 1..Len(messages) : ~Provisional(messages[i]))

\* the completions the text model is running: those of the sends on the
\* text route and that of the Report button
TextCompletions ==
    Cardinality({t \in Turns : sends[t].pc = "complete"
                                /\ sends[t].model = "text"})
    + (IF manual # <<>> THEN 1 ELSE 0)

\* C30: the text model runs at most one completion at a time: the
\* completion of the Report button and the completion of a send() never
\* overlap.
C30_OneTextCompletion == TextCompletions <= 1

----------------------------------------------------------------------------
(* Retrieval alone: retrieveRelevantContext over every small knowledge     *)
(* base, for a query whose embedding is returned or raises                 *)

\* against the query <<1, 0, 0, 0>> these score 1, 0.707.., 0.371.., 0.3,
\* 0.242.. and, for the embedding of another dimension, 0; against the
\* opposite query the scores are the negatives, against the zero query 0
ChunkEmbeddings ==
    {<<1, 0, 0, 0>>, <<1, 1, 0, 0>>, <<2, 5, 0, 0>>, <<3, 9, 3, 1>>,
     <<1, 4, 0, 0>>, <<1>>}

QueryOutcomes ==
    {<<>>, <<(<<1, 0, 0, 0>>)>>, <<(<<-1, 0, 0, 0>>)>>, <<(<<0, 0, 0, 0>>)>>}

ChunkNamed(i) == Chunk(<<"chunk ", ToString(i)>>, <<>>)

\* the documents named name with at most most chunks
DocumentsNamed(id, name, most) ==
    UNION {{[id |-> id, name |-> name,
             chunks |-> [i \in 1..n |-> ChunkNamed(i)],
             embeddings |-> e] : e \in [1..n -> ChunkEmbeddings]}
           : n \in 0..most}

\* no document, one document of at most MaxChunks chunks, or that document
\* followed by one of at most one chunk
Corpora ==
    {<<>>}
    \cup {<<d>> : d \in DocumentsNamed(1, "Policy", MaxChunks)}
    \cup {<<d, e>> : d \in DocumentsNamed(1, "Policy", MaxChunks),
                     e \in DocumentsNamed(2, "Terms", 1)}

RetrieveInit ==
    /\ ConvInitWith(Corpora)
    /\ textModel
    /\ visionModel
    /\ RagIdle
    /\ KbIdle
    /\ PureIdle

Retrieve ==
    /\ \E embedded \in QueryOutcomes :
         /\ rquery' = embedded
         /\ rresult' = <<retrieveRelevantContext(embedded, textModel,
                                                 documentsRef)>>
    /\ UNCHANGED <<convVars, kbVars, pureVars>>

RetrieveNext == Retrieve

SpecRetrieve == RetrieveInit /\ [][RetrieveNext]_vars

----------------------------------------------------------------------------
(* Claims about retrieval *)

\* the query was embedded and retrieval has returned
Embedded == rresult # <<>> /\ rquery # <<>>

Sources == rresult[1].sources

\* every chunk of the knowledge base with its score for the query
AllScored == ScoreAll(rquery[1], documentsRef)

\* score >= 0.5
ReachesHalf(x) == x.num > 0 /\ 4 * x.num * x.num >= x.den

\* score > 0.3
ExceedsThreeTenths(x) == x.num > 0 /\ 100 * x.num * x.num > 9 * x.den

\* the sources are chunks of the knowledge base, and no chunk left out
\* scores more than a source
HighestScoring ==
    /\ \A j \in 1..Len(Sources) :
           \E i \in 1..Len(AllScored) : AllScored[i] = Sources[j]
    /\ \A i \in 1..Len(AllScored) :
           \/ \E j \in 1..Len(Sources) : Sources[j] = AllScored[i]
           \/ \A j \in 1..Len(Sources) :
                  ~ScoreLess(Sources[j].score, AllScored[i].score)

\* the sources were not taken through the fallback
ThresholdPath == Embedded /\ topChunks(AllScored) # <<>>

C6_AtMostThreeSorted ==
    rresult # <<>>
        => /\ Len(Sources) <= 3
           /\ \A i, j \in 1..Len(Sources) :
                  i < j => ~ScoreLess(Sources[i].score, Sources[j].score)

C6_Witness ==
    /\ ThresholdPath
    /\ Len(AllScored) = 4
    /\ Len(Sources) = 3
    /\ ScoreLess(Sources[3].score, Sources[2].score)
    /\ ScoreLess(Sources[2].score, Sources[1].score)
    /\ ScoreLess(AllScored[1].score, AllScored[4].score)

Rank(i) ==
    Cardinality({j \in 1..Len(AllScored) :
                    \/ ScoreLess(AllScored[i].score, AllScored[j].score)
                    \/ /\ j < i
                       /\ ~ScoreLess(AllScored[j].score, AllScored[i].score)})

\* the first three chunks of the reference ranking
ReferenceTop ==
    [r \in 1..(IF Len(AllScored) < 3 THEN Len(AllScored) ELSE 3) |->
        AllScored[CHOOSE i \in 1..Len(AllScored) : Rank(i) = r - 1]]

\* score < 0.3
BelowThreeTenths(x) == x.num <= 0 \/ 100 * x.num * x.num < 9 * x.den

\* C26 as claimed: when the reference ranking (every chunk scored, ordered
\* by descending score with ties in corpus order, the first three taken,
\* those scoring below the threshold dropped) is not empty, it is the
\* result of retrieval.
C26_ReferenceDropsBelow ==
    (Embedded
     /\ SelectSeq(ReferenceTop, LAMBDA c : ~BelowThreeTenths(c.score)) # <<>>)
        => Sources
             = SelectSeq(ReferenceTop, LAMBDA c : ~BelowThreeTenths(c.score))

\* C26 amended: the same with the chunks dropped that do not score more
\* than 0.3, a chunk scoring exactly 0.3 included.
C26_ReferenceKeepsAbove ==
    (Embedded
     /\ SelectSeq(ReferenceTop, LAMBDA c : ExceedsThreeTenths(c.score)) # <<>>)
        => Sources
             = SelectSeq(ReferenceTop, LAMBDA c : ExceedsThreeTenths(c.score))

C26_Witness ==
    /\ Embedded
    /\ Len(documentsRef) = 2
    /\ Len(AllScored) = 4
    /\ ExceedsThreeTenths(AllScored[4].score)
    /\ ScoreLess(AllScored[1].score, AllScored[2].score)
    /\ ~ScoreLess(AllScored[2].score, AllScored[4].score)
    /\ ~ScoreLess(AllScored[4].score, AllScored[2].score)
    /\ ~ScoreLess(AllScored[3].score, AllScored[4].score)
    /\ ~ScoreLess(AllScored[4].score, AllScored[3].score)
    /\ Sources = <<AllScored[2], AllScored[3], AllScored[4]>>

----------------------------------------------------------------------------
(* The knowledge-base screen *)

\* the name typed into the form
DocumentName == "Policy"

\* Array(384): the width of the placeholder embedding
PlaceholderDimension == 384

\* the width of result.embedding, a property of the embedding model the
\* device loaded
EmbedDimensions == {384, 1024}

\* a document; chunks is the number of its chunks, embeddings the widths of
\* its embedding vectors
NewDocument(id, chunks, embeddings) ==
    [id |-> id, name |-> DocumentName, chunks |-> chunks,
     embeddings |-> embeddings]

\* what AsyncStorage may hold when the screen mounts
StoredSnapshots == {<<>>, <<NewDocument(0, 1, <<PlaceholderDimension>>)>>}

Ids(docs) == {docs[i].id : i \in 1..Len(docs)}

\* documents.filter((d) => d.id !== id)
WithoutId(docs, id) == SelectSeq(docs, LAMBDA d : d.id # id)

\* saveDocuments(docs) up to its await of AsyncStorage.setItem
SaveCall(docs, by, id) == [docs |-> docs, by |-> by, id |-> id]

\* the end of the loop of handleAddDocument: newDoc and saveDocuments
IngestSave(g) ==
    SaveCall(g.documents \o <<NewDocument(ningests + 1, g.chunks, g.embeddings)>>,
             "ingest", ningests + 1)

\* loadDocuments: AsyncStorage.getItem resolves (ok) and the stored list is
\* shown, or it rejects and the error is logged
LoadSettled ==
    /\ loadPending
    /\ loadPending' = FALSE
    /\ \E ok \in BOOLEAN :
         documents' = IF ok THEN stored ELSE documents
    /\ UNCHANGED <<loading, modelLoading, cactusRef, stored, ingest, dialog,
                   saves, ningests, ingested, deleted, textInput, alert,
                   convVars, ragVars,
                   pureVars>>

\* loadEmbeddingModel settles: the model is there, or it is not
EmbeddingModelSettled ==
    /\ modelLoading
    /\ modelLoading' = FALSE
    /\ cactusRef' \in {<<>>} \cup {<<d>> : d \in EmbedDimensions}
    /\ UNCHANGED <<documents, loading, stored, ingest, dialog, saves,
                   ningests, ingested, deleted, loadPending, textInput,
                   alert, convVars, ragVars,
                   pureVars>>

\* "Add Document" pressed with a name and a text of n chunks
PressAdd ==
    /\ dialog = <<>>
    /\ ~loading
    /\ ~modelLoading
    /\ ningests < MaxIngests
    /\ \E n \in 0..MaxTextChunks :
         LET g == [pc |-> "embedding", documents |-> documents,
                   chunks |-> n, embeddings |-> <<>>]
         IN  /\ textInput' = <<n>>
             /\ IF n = 0
                THEN /\ ingest' = [g EXCEPT !.pc = "saving"]
                     /\ saves' = Append(saves, IngestSave(g))
                     /\ ningests' = ningests + 1
                ELSE /\ ingest' = g
                     /\ UNCHANGED <<saves, ningests>>
    /\ loading' = TRUE
    /\ UNCHANGED <<documents, modelLoading, cactusRef, stored, dialog,
                   ingested, deleted, loadPending, alert, convVars, ragVars,
                   pureVars>>

\* generateEmbedding without its catch: an embed that raises ends the loop
\* and the document is saved with the embeddings collected so far
EmbedChunkUncaught ==
    /\ ingest.pc = "embedding"
    /\ \E raised \in (IF cactusRef # <<>> THEN BOOLEAN ELSE {FALSE}) :
         LET g == IF raised THEN ingest
                  ELSE [ingest EXCEPT !.embeddings =
                           Append(ingest.embeddings,
                                  IF cactusRef # <<>> THEN cactusRef[1]
                                  ELSE PlaceholderDimension)]
         IN  IF raised \/ Len(g.embeddings) = g.chunks
             THEN /\ ingest' = [g EXCEPT !.pc = "saving"]
                  /\ saves' = Append(saves, IngestSave(g))
                  /\ ningests' = ningests + 1
             ELSE /\ ingest' = g
                  /\ UNCHANGED <<saves, ningests>>
    /\ UNCHANGED <<documents, loading, modelLoading, cactusRef, stored,
                   dialog, ingested, deleted, loadPending, textInput, alert,
                   convVars, ragVars,
                   pureVars>>

\* generateEmbedding of the next chunk returns: the model's embedding, or
\* the placeholder when there is no model or embed raised
EmbedChunk ==
    /\ ingest.pc = "embedding"
    /\ \E raised \in (IF cactusRef # <<>> THEN BOOLEAN ELSE {FALSE}) :
         LET g == [ingest EXCEPT !.embeddings =
                      Append(ingest.embeddings,
                             IF cactusRef # <<>> /\ ~raised THEN cactusRef[1]
                             ELSE PlaceholderDimension)]
         IN  IF Len(g.embeddings) = g.chunks
             THEN /\ ingest' = [g EXCEPT !.pc = "saving"]
                  /\ saves' = Append(saves, IngestSave(g))
                  /\ ningests' = ningests + 1
             ELSE /\ ingest' = g
                  /\ UNCHANGED <<saves, ningests>>
    /\ UNCHANGED <<documents, loading, modelLoading, cactusRef, stored,
                   dialog, ingested, deleted, loadPending, textInput, alert,
                   convVars, ragVars,
                   pureVars>>

\* handleDelete: a long press on a listed document opens the alert
LongPress ==
    /\ dialog = <<>>
    /\ \E i \in 1..Len(documents) :
         dialog' = <<[id |-> documents[i].id, documents |-> documents]>>
    /\ UNCHANGED <<documents, loading, modelLoading, cactusRef, stored,
                   ingest, saves, ningests, ingested, deleted, loadPending,
                   textInput, alert, convVars, ragVars,
                   pureVars>>

DialogCancel ==
    /\ dialog # <<>>
    /\ dialog' = <<>>
    /\ UNCHANGED <<documents, loading, modelLoading, cactusRef, stored,
                   ingest, saves, ningests, ingested, deleted, loadPending,
                   textInput, alert, convVars, ragVars,
                   pureVars>>

\* "Delete" of the alert
DialogDelete ==
    /\ dialog # <<>>
    /\ Len(saves) < MaxSaves
    /\ saves' = Append(saves,
                       SaveCall(WithoutId(dialog[1].documents, dialog[1].id),
                                "delete", dialog[1].id))
    /\ dialog' = <<>>
    /\ UNCHANGED <<documents, loading, modelLoading, cactusRef, stored,
                   ingest, ningests, ingested, deleted, loadPending,
                   textInput, alert, convVars, ragVars,
                   pureVars>>

\* Alert.alert("Success", ...) of the ingest of document id
SuccessAlert(id) == <<[title |-> "Success", id |-> id]>>

\* AsyncStorage.setItem of the oldest saveDocuments call resolves (ok) or
\* rejects; then the rest of saveDocuments, which logs a rejection and
\* returns, and, for an ingest, the rest of handleAddDocument
SaveSettled ==
    /\ saves # <<>>
    /\ \E ok \in BOOLEAN :
         LET call == Head(saves)
         IN  /\ stored' = IF ok THEN call.docs ELSE stored
             /\ documents' = IF ok THEN call.docs ELSE documents
             /\ ingested' = IF ok /\ call.by = "ingest"
                            THEN ingested \cup {call.id} ELSE ingested
             /\ deleted' = IF ok /\ call.by = "delete"
                           THEN deleted \cup {call.id} ELSE deleted
             /\ IF call.by = "ingest"
                THEN /\ textInput' = <<>>
                     /\ alert' = SuccessAlert(call.id)
                     /\ loading' = FALSE
                     /\ ingest' = IdleIngest
                ELSE UNCHANGED <<textInput, alert, loading, ingest>>
    /\ saves' = Tail(saves)
    /\ UNCHANGED <<modelLoading, cactusRef, dialog, ningests, loadPending,
                   convVars, ragVars,
                   pureVars>>

KbInit ==
    ConvIdle /\ RagIdle /\ KbInitWith(StoredSnapshots) /\ PureIdle

KbNext ==
    \/ LoadSettled
    \/ EmbeddingModelSettled
    \/ PressAdd
    \/ EmbedChunk
    \/ LongPress
    \/ DialogCancel
    \/ DialogDelete
    \/ SaveSettled

SpecKB == KbInit /\ [][KbNext]_vars

----------------------------------------------------------------------------
(* Claims about the knowledge-base screen *)

\* no load, ingest, delete or save is under way
Quiescent ==
    ~loadPending /\ ingest.pc = "idle" /\ dialog = <<>> /\ saves = <<>>

\* C4: whatever the interleaving of ingests and deletes, once they are over
\* the persisted documents are those of a serial execution: every document
\* whose ingest was persisted and whose delete was not, and no other.
C4_SerialSnapshot ==
    Quiescent => Ids(stored) = ingested \ deleted

\* the documents of a list have as many embeddings as chunks
EmbeddingPerChunk(docs) ==
    \A i \in 1..Len(docs) : Len(docs[i].embeddings) = docs[i].chunks

\* C11: every document in memory, in the persisted snapshot and in a
\* snapshot on its way to storage has exactly as many embeddings as chunks,
\* whether the embedder was loaded, missing or failing during its ingest.
C11_EmbeddingPerChunk ==
    /\ EmbeddingPerChunk(documents)
    /\ EmbeddingPerChunk(stored)
    /\ \A i \in 1..Len(saves) : EmbeddingPerChunk(saves[i].docs)

\* a persisted and listed document of two chunks, one of them embedded
\* while the loaded embedder raised
C11_Witness ==
    /\ cactusRef # <<>>
    /\ cactusRef[1] # PlaceholderDimension
    /\ \E i \in 1..Len(stored) :
         /\ stored[i].id > 0
         /\ stored[i].chunks = 2
         /\ \E k \in 1..2 : stored[i].embeddings[k] = PlaceholderDimension
         /\ \E j \in 1..Len(documents) : documents[j] = stored[i]

\* the widths of every embedding vector of a list of documents
DimensionsOf(docs) ==
    UNION {{docs[i].embeddings[k] : k \in 1..Len(docs[i].embeddings)} :
               i \in 1..Len(docs)}

\* C12: all embeddings of the persisted corpus have one and the same
\* dimension, across all chunks of all documents, also after ingests during
\* which the embedder was not loaded or failed for some of the chunks.
C12_OneDimension ==
    Cardinality(DimensionsOf(stored)) <= 1

\* C13: whenever no load, ingest or delete is in progress, the in-memory
\* document list equals the persisted snapshot.
C13_MemoryIsSnapshot ==
    Quiescent => documents = stored

\* C14: when persisting fails during an ingest, the ingest does not announce
\* success and does not clear the pending text: once the latest ingest is
\* over and its document was not persisted, no "Success" alert for it is
\* shown and the typed text is still in the form.
C14_FailureReported ==
    (ingest.pc = "idle" /\ ningests > 0 /\ ningests \notin ingested) =>
        /\ alert # SuccessAlert(ningests)
        /\ textInput # <<>>

----------------------------------------------------------------------------
(* chunkText alone: every text of at most MaxTextLen characters, every     *)
(* chunkSize up to MaxChunkSize.  Here a symbol is one character, so Len   *)
(* is the length of the string.                                            *)

IsTerminator(c) == c \in {".", "!", "?"}

\* the rest of s after the terminators it starts with
RECURSIVE SkipTerminators(_)
SkipTerminators(s) ==
    IF s # <<>> /\ IsTerminator(Head(s)) THEN SkipTerminators(Tail(s)) ELSE s

\* text.split(/[.!?]+/): piece is the piece read so far
RECURSIVE SplitFrom(_, _)
SplitFrom(s, piece) ==
    IF s = <<>> THEN <<piece>>
    ELSE IF IsTerminator(Head(s))
         THEN <<piece>> \o SplitFrom(SkipTerminators(s), <<>>)
         ELSE SplitFrom(Tail(s), Append(piece, Head(s)))

\* text.split(/[.!?]+/).filter((s) => s.trim())
SplitSentences(text) ==
    SelectSeq(SplitFrom(text, <<>>), LAMBDA s : Trim(s) # <<>>)

\* the separator put between the sentences of a chunk
SentenceSeparator == <<".", " ">>

\* the loop with a flush that starts the next chunk empty
RECURSIVE ChunkLoopDropping(_, _, _, _)
ChunkLoopDropping(sentences, currentChunk, chunks, chunkSize) ==
    IF sentences = <<>>
    THEN IF currentChunk # <<>> THEN Append(chunks, Trim(currentChunk))
         ELSE chunks
    ELSE LET sentence == Head(sentences)
         IN  IF Len(currentChunk \o sentence) > chunkSize
                    /\ currentChunk # <<>>
             THEN ChunkLoopDropping(Tail(sentences), <<>>,
                                    Append(chunks, Trim(currentChunk)),
                                    chunkSize)
             ELSE ChunkLoopDropping(
                      Tail(sentences),
                      currentChunk
                          \o (IF currentChunk # <<>> THEN SentenceSeparator
                              ELSE <<>>)
                          \o Trim(sentence),
                      chunks, chunkSize)

\* the for loop of chunkText over the remaining sentences, and the push
\* that follows it
RECURSIVE ChunkLoop(_, _, _, _)
ChunkLoop(sentences, currentChunk, chunks, chunkSize) ==
    IF sentences = <<>>
    THEN IF currentChunk # <<>> THEN Append(chunks, Trim(currentChunk))
         ELSE chunks
    ELSE LET sentence == Head(sentences)
         IN  IF Len(currentChunk \o sentence) > chunkSize
                    /\ currentChunk # <<>>
             THEN ChunkLoop(Tail(sentences), sentence,
                            Append(chunks, Trim(currentChunk)), chunkSize)
             ELSE ChunkLoop(
                      Tail(sentences),
                      currentChunk
                          \o (IF currentChunk # <<>> THEN SentenceSeparator
                              ELSE <<>>)
                          \o Trim(sentence),
                      chunks, chunkSize)

chunkText(text, chunkSize) ==
    ChunkLoop(SplitSentences(text), <<>>, <<>>, chunkSize)

ChunkSymbols == {"a", "b", " ", ".", "?"}

RECURSIVE TextsOver(_, _)
TextsOver(symbols, n) ==
    IF n = 0 THEN {<<>>}
    ELSE LET shorter == TextsOver(symbols, n - 1)
         IN  shorter \cup {Append(t, c) : t \in shorter, c \in symbols}

ChunkInit ==
    /\ ConvIdle
    /\ RagIdle
    /\ KbIdle
    /\ \E t \in TextsOver(ChunkSymbols, MaxTextLen), n \in 1..MaxChunkSize :
         chunkInput = <<[text |-> t, chunkSize |-> n]>>
    /\ chunked = <<>>
    /\ rawText = <<>>
    /\ sanitized = <<>>
    /\ resanitized = <<>>

\* const chunks = chunkText(textInput), for any chunkSize
ChunkText ==
    /\ chunked = <<>>
    /\ chunked' = <<chunkText(chunkInput[1].text, chunkInput[1].chunkSize)>>
    /\ UNCHANGED <<convVars, ragVars, kbVars, chunkInput, rawText, sanitized,
                   resanitized>>

ChunkNext == ChunkText

SpecChunk == ChunkInit /\ [][ChunkNext]_vars

----------------------------------------------------------------------------
(* Claims about chunkText *)

\* the non-empty trimmed sentences of a text, in order
TrimmedSentences(text) ==
    LET sentences == SplitSentences(text)
    IN  [i \in 1..Len(sentences) |-> Trim(sentences[i])]

\* the chunks joined in order with the sentence separator
RECURSIVE Rejoined(_)
Rejoined(chunks) ==
    IF chunks = <<>> THEN <<>>
    ELSE IF Len(chunks) = 1 THEN Head(chunks)
    ELSE Head(chunks) \o SentenceSeparator \o Rejoined(Tail(chunks))

\* the sentences of each chunk, chunk after chunk
RECURSIVE SentencesByChunk(_)
SentencesByChunk(chunks) ==
    IF chunks = <<>> THEN <<>>
    ELSE TrimmedSentences(Head(chunks)) \o SentencesByChunk(Tail(chunks))

\* C15: chunkText never places parts of one sentence in two chunks, and
\* re-joining the chunks in order with the sentence separator reproduces
\* the sequence of non-empty trimmed sentences of the text, in order, none
\* lost and none duplicated.
C15_SentencesKept ==
    chunked # <<>> =>
        /\ SentencesByChunk(chunked[1])
               = TrimmedSentences(chunkInput[1].text)
        /\ TrimmedSentences(Rejoined(chunked[1]))
               = TrimmedSentences(chunkInput[1].text)

\* a buffer of two sentences was flushed and a later sentence started the
\* next chunk
C15_Witness ==
    /\ chunked # <<>>
    /\ Len(chunked[1]) >= 2
    /\ Len(TrimmedSentences(chunked[1][1])) = 2
    /\ Len(TrimmedSentences(chunkInput[1].text)) = 3

\* C16: every chunk longer than chunkSize is exactly one sentence; a chunk
\* of two or more sentences never exceeds chunkSize.
C16_LongChunkIsOneSentence ==
    chunked # <<>> =>
        \A i \in 1..Len(chunked[1]) :
            Len(chunked[1][i]) > chunkInput[1].chunkSize
                => Len(TrimmedSentences(chunked[1][i])) = 1

----------------------------------------------------------------------------
(* cleanResponse alone: every raw text of at most MaxRawLen symbols        *)

RawSymbols == {"<", "t", ">", "/", "|", "x"}

SanitizeInit ==
    /\ ConvIdle
    /\ RagIdle
    /\ KbIdle
    /\ chunkInput = <<>>
    /\ chunked = <<>>
    /\ rawText \in TextsOver(RawSymbols, MaxRawLen)
    /\ sanitized = <<>>
    /\ resanitized = <<>>

\* cleanResponse(text) of a raw response
Sanitize ==
    /\ sanitized = <<>>
    /\ sanitized' = <<cleanResponse(rawText)>>
    /\ UNCHANGED <<convVars, ragVars, kbVars, chunkInput, chunked, rawText,
                   resanitized>>

\* cleanResponse of the clean text it returned
SanitizeDisplay ==
    /\ sanitized # <<>>
    /\ resanitized = <<>>
    /\ resanitized' = <<cleanResponse(sanitized[1].clean)>>
    /\ UNCHANGED <<convVars, ragVars, kbVars, chunkInput, chunked, rawText,
                   sanitized>>

SanitizeNext ==
    \/ Sanitize
    \/ SanitizeDisplay

SpecSanitize == SanitizeInit /\ [][SanitizeNext]_vars

----------------------------------------------------------------------------
(* Claims about cleanResponse *)

\* C17: cleanResponse is idempotent on its clean text: cleaning the clean
\* text of a raw response gives that clean text again.
C17_Idempotent ==
    resanitized # <<>> => resanitized[1].clean = sanitized[1].clean

\* pat occurs somewhere in s, ignoring case
Occurs(s, pat) == FindFrom(s, 1, pat) # 0

\* s holds a control-token marker <|...|>
HoldsToken(s) ==
    \E i \in 1..Len(s) : MatchAt(s, i, <<"<", "|">>) /\ TokenEnd(s, i + 2) # 0

\* raw is an orphan open tag between two texts without markup
OrphanOpen(raw, before, after) ==
    /\ raw = before \o OpenTag \o after
    /\ ~Occurs(before, <<"<">>)
    /\ ~Occurs(after, <<"<">>)

\* C18: the clean text of every raw response holds no <think>, no </think>
\* and no <|...|> marker; for an orphan <think> without a close tag the
\* text after the tag is kept.
C18_NoDelimiterLeft ==
    sanitized # <<>> =>
        /\ ~Occurs(sanitized[1].clean, OpenTag)
        /\ ~Occurs(sanitized[1].clean, CloseTag)
        /\ ~HoldsToken(sanitized[1].clean)
        /\ \A k \in 0..Len(rawText) :
               \A j \in k..Len(rawText) :
                   OrphanOpen(rawText, Slice(rawText, 1, k),
                              Slice(rawText, j + 1, Len(rawText)))
                       => sanitized[1].clean
                              = Trim(Slice(rawText, 1, k)
                                     \o Slice(rawText, j + 1, Len(rawText)))

====
